---- MODULE Spec2Model ----
(***************************************************************************)
(* A model of pybossa/exporter/task_csv_export.py (class TaskCsvExporter): *)
(* the flattening of nested records into CSV headers (get_keys), the       *)
(* projection of a record onto a header row (get_value, _format_csv_row),  *)
(* the header union (_get_all_headers), the two record normalisers         *)
(* (merge_objects, process_filtered_row), the export generators            *)
(* (_get_csv, _get_csv_with_filters, _respond_csv) and the archive         *)
(* handlers (get_zip, make_zip, _make_zip).                                *)
(*                                                                         *)
(* The module is Python 2 code (dict.iteritems, implicit relative import). *)
(* Text is modelled as a sequence of characters, so that '__'.join and     *)
(* split('__') are computed and not assumed to be inverse, and so that     *)
(* str() of a unicode key is the ASCII encoding Python 2 performs.         *)
(***************************************************************************)
EXTENDS Integers, Sequences, FiniteSets, TLC

VARIABLES
    call,     \* SpecCalls: the last method called, with its arguments
    ret,      \* SpecCalls: what that call returned or raised
    req,      \* Spec: the arguments of the running _respond_csv call
    gen,      \* Spec: the state of the generator _respond_csv returned
    out,      \* Spec: the temporary file behind the writer: rows and position
    stream,   \* Spec: the chunks the consumer has received so far
    err,      \* Spec: the exception the consumer has seen, or "none"
    store,    \* SpecZip: archive key -> stored archive, or NoArchive
    zcall,    \* SpecZip: the last archive handler called
    zlog,     \* SpecZip: what that handler did to the store, in order
    zres      \* SpecZip: that handler's response, or the exception it raised

vars == <<call, ret, req, gen, out, stream, err, store, zcall, zlog, zres>>

\* No call made yet. Every record kept in a variable names its kind in op.
Idle == [op |-> "none"]

(***************************************************************************)
(* Bounds of the model.                                                    *)
(***************************************************************************)
\* Keys, over all nesting depths, of a nested record given to one call.
MaxNodes == 3
\* Keys of a flat (SQL) row given to process_filtered_row.
MaxFlatKeys == 2
\* Segments of a path given to get_value.
MaxArgs == 2
\* Records of a collection given to _get_all_headers or held by a source.
MaxRecords == 2

(***************************************************************************)
(* Text: a sequence of characters. E_ACUTE stands for a character outside  *)
(* ASCII (u'\xe9').                                                        *)
(***************************************************************************)
E_ACUTE == "e_acute"

Lower == <<"a", "b", "c", "d", "e", "f", "g", "h", "i", "j", "k", "l", "m",
           "n", "o", "p", "q", "r", "s", "t", "u", "v", "w", "x", "y", "z">>

\* The code point of a character.
Code(c) ==
    IF c = "_" THEN 95
    ELSE IF c = E_ACUTE THEN 233
    ELSE 96 + (CHOOSE i \in 1..Len(Lower) : Lower[i] = c)

IsAscii(s) == \A i \in 1..Len(s) : Code(s[i]) < 128

\* s < t in code point order (the order of Python 2's str comparison).
RECURSIVE StrLess(_, _)
StrLess(s, t) ==
    IF Len(t) = 0 THEN FALSE
    ELSE IF Len(s) = 0 THEN TRUE
    ELSE IF Code(s[1]) # Code(t[1]) THEN Code(s[1]) < Code(t[1])
    ELSE StrLess(Tail(s), Tail(t))

DELIM == <<"_", "_">>

\* s.split('__'): the leftmost, non-overlapping occurrences of '__' cut s.
RECURSIVE SplitFrom(_, _, _)
SplitFrom(s, i, cur) ==
    IF i > Len(s) THEN <<cur>>
    ELSE IF i < Len(s) /\ s[i] = "_" /\ s[i + 1] = "_"
         THEN <<cur>> \o SplitFrom(s, i + 2, <<>>)
         ELSE SplitFrom(s, i + 1, Append(cur, s[i]))

Split(s) == SplitFrom(s, 1, <<>>)

\* '__'.join(segs)
RECURSIVE Join(_)
Join(segs) ==
    IF Len(segs) = 0 THEN <<>>
    ELSE IF Len(segs) = 1 THEN segs[1]
    ELSE segs[1] \o DELIM \o Join(Tail(segs))

\* sorted(list(S)) of a set of str.
RECURSIVE Sorted(_)
Sorted(S) ==
    IF S = {} THEN <<>>
    ELSE LET m == CHOOSE x \in S : \A y \in S : x = y \/ StrLess(x, y)
         IN  <<m>> \o Sorted(S \ {m})

Range(q) == {q[i] : i \in 1..Len(q)}

TASK == <<"t", "a", "s", "k">>
USER == <<"u", "s", "e", "r">>
TASKRUN == <<"t", "a", "s", "k", "r", "u", "n">>
TASK_RUN == <<"t", "a", "s", "k", "_", "r", "u", "n">>

(***************************************************************************)
(* Python values: None, a list, a number, a dict (a function from keys to  *)
(* values). A call returns a value (Ok) or raises (Raise).                 *)
(***************************************************************************)
NullV == [t |-> "null"]
ListV == [t |-> "list"]
IntV(n) == [t |-> "int", v |-> n]
MapV(m) == [t |-> "map", m |-> m]
IsMap(x) == x.t = "map"
EmptyMap == <<>>

Ok(v) == [ok |-> TRUE, val |-> v]
Raise(e) == [ok |-> FALSE, exc |-> e]

\* d.keys(): the keys of a dict in its iteration order. The order is
\* arbitrary in Python 2; get_keys' only callers put its result in a set.
KeyOrder(m) == Sorted(DOMAIN m)

Put(m, k, v) == [x \in DOMAIN m \cup {k} |-> IF x = k THEN v ELSE m[x]]

(***************************************************************************)
(* get_keys(row, ty, parent_key): lines 34-67.                             *)
(***************************************************************************)
RECURSIVE get_keys(_, _, _)
RECURSIVE get_keys_loop(_, _, _)

\* Lines 60-67: row.keys() raises AttributeError when row is no dict; the
\* final [str(key) for key in keys] raises UnicodeEncodeError when a key is
\* not ASCII.
get_keys_from(row, prefix) ==
    IF ~IsMap(row) THEN Raise("AttributeError")
    ELSE LET keys == get_keys_loop(row.m, prefix, KeyOrder(row.m))
         IN  IF \E i \in 1..Len(keys) : ~IsAscii(keys[i])
             THEN Raise("UnicodeEncodeError")
             ELSE Ok(keys)

\* Lines 61-65: the key's own header, then the nested call's headers; the
\* bare except drops whatever the nested call raises.
get_keys_loop(m, prefix, ks) ==
    IF Len(ks) = 0 THEN <<>>
    ELSE LET key == Head(ks)
             sub == get_keys(m[key], prefix \o key, <<>>)
         IN  <<prefix \o key>>
             \o (IF sub.ok THEN sub.val ELSE <<>>)
             \o get_keys_loop(m, prefix, Tail(ks))

\* Lines 55-58: '{}__{}'.format(ty, parent_key) encodes unicode arguments
\* as ASCII.
get_keys(row, ty, parent_key) ==
    IF ty = <<>> /\ parent_key = <<>> THEN get_keys_from(row, <<>>)
    ELSE IF ~IsAscii(ty) \/ ~IsAscii(parent_key) THEN Raise("UnicodeEncodeError")
    ELSE get_keys_from(row, ty \o DELIM \o parent_key)

(***************************************************************************)
(* get_value(row, *args): lines 69-91.                                     *)
(***************************************************************************)
\* row[arg] at line 88: KeyError for an absent key, TypeError for a str
\* index into None, a number or a list.
Subscript(row, arg) ==
    IF ~IsMap(row) THEN Raise("TypeError")
    ELSE IF arg \notin DOMAIN row.m THEN Raise("KeyError")
    ELSE Ok(row.m[arg])

\* get_value without its try: a failed row[arg] leaves the method.
RECURSIVE get_value_no_except(_, _)
get_value_no_except(row, args) ==
    IF Len(args) = 0 THEN Ok(row)
    ELSE LET item == Subscript(row, Head(args))
         IN  IF item.ok THEN get_value_no_except(item.val, Tail(args))
             ELSE item

\* The first pass of the for loop always returns: the nested call's result,
\* or None from the bare except.
RECURSIVE get_value(_, _)
get_value(row, args) ==
    IF Len(args) = 0 THEN Ok(row)
    ELSE LET item == Subscript(row, Head(args))
         IN  IF item.ok THEN get_value(item.val, Tail(args))
             ELSE Ok(NullV)

(***************************************************************************)
(* _format_csv_row(row, headers): lines 142-144.                           *)
(***************************************************************************)
\* _format_csv_row leaving out the cells that are None.
_format_csv_row_skip_none(row, headers) ==
    Ok(SelectSeq([i \in 1..Len(headers) |->
                     get_value(row, Tail(Split(headers[i]))).val],
                 LAMBDA c : c # NullV))

_format_csv_row(row, headers) ==
    LET cells == [i \in 1..Len(headers) |->
                     get_value(row, Tail(Split(headers[i])))]
    IN  IF \E i \in 1..Len(headers) : ~cells[i].ok
        THEN Raise((CHOOSE i \in 1..Len(headers) : ~cells[i].ok).exc)
        ELSE Ok([i \in 1..Len(headers) |-> cells[i].val])

(***************************************************************************)
(* Domain objects. An object t is [cls, dict, task, user]: its class name  *)
(* in lower case, what t.dictize() returns, and for each relation what the *)
(* related object's dictize() returns, None for a null relation, or Absent *)
(* when the class has no such attribute.                                   *)
(***************************************************************************)
Absent == [t |-> "absent"]

NAME == <<"n", "a", "m", "e">>
FULLNAME == <<"f", "u", "l", "l", "n", "a", "m", "e">>
CREATED == <<"c", "r", "e", "a", "t", "e", "d">>
EMAIL_ADDR == <<"e", "m", "a", "i", "l", "_", "a", "d", "d", "r">>
ADMIN == <<"a", "d", "m", "i", "n">>
SUBADMIN == <<"s", "u", "b", "a", "d", "m", "i", "n">>
API_KEY == <<"a", "p", "i", "_", "k", "e", "y">>
PASSWD_HASH == <<"p", "a", "s", "s", "w", "d", "_", "h", "a", "s", "h">>
ID == <<"i", "d">>
INFO == <<"i", "n", "f", "o">>

\* Line 111-112.
allowed_attributes == {NAME, FULLNAME, CREATED, EMAIL_ADDR, ADMIN, SUBADMIN}

\* x.dictize() for x an object's relation: AttributeError for None and for
\* a missing attribute.
Dictize(x) == IF IsMap(x) THEN Ok(x) ELSE Raise("AttributeError")

\* The user's dict taken whole.
FilterAllowed_all(user) == user

\* Line 113: the dict comprehension over user.iteritems().
FilterAllowed(user) ==
    [k \in DOMAIN user \cap allowed_attributes |-> user[k]]

(***************************************************************************)
(* merge_objects(t): lines 93-118. Each try block leaves obj_dict as it    *)
(* was when its dictize() raises.                                          *)
(***************************************************************************)
merge_objects(t) ==
    LET own  == Dictize(t.dict)
        d0   == IF own.ok THEN own.val.m ELSE EmptyMap
        task == Dictize(t.task)
        d1   == IF task.ok THEN Put(d0, TASK, task.val) ELSE d0
        user == Dictize(t.user)
        d2   == IF user.ok
                THEN Put(d1, USER, MapV(FilterAllowed(user.val.m)))
                ELSE d1
    IN  MapV(d2)

(***************************************************************************)
(* process_filtered_row(row): lines 120-139. order is the order in which   *)
(* row.iteritems() visits the keys, which Python 2 leaves arbitrary.       *)
(***************************************************************************)
\* set_nested_value with row[key] = {} in place of setdefault.
RECURSIVE set_nested_value_fresh(_, _, _)
set_nested_value_fresh(row, keys, value) ==
    IF Len(keys) = 1
    THEN IF IsMap(row) THEN Ok(MapV(Put(row.m, keys[1], value)))
         ELSE Raise("TypeError")
    ELSE IF ~IsMap(row) THEN Raise("TypeError")
    ELSE LET r == set_nested_value_fresh(MapV(EmptyMap), Tail(keys), value)
         IN  IF r.ok THEN Ok(MapV(Put(row.m, keys[1], r.val))) ELSE r

\* Lines 126-129: setdefault along keys[:-1], then the item assignment.
\* setdefault raises AttributeError on a value that is no dict, the item
\* assignment TypeError. The dict reached is changed in place: the model
\* rebuilds the enclosing dicts around it.
RECURSIVE set_nested_value(_, _, _)
set_nested_value(row, keys, value) ==
    IF Len(keys) = 1
    THEN IF IsMap(row) THEN Ok(MapV(Put(row.m, keys[1], value)))
         ELSE Raise("TypeError")
    ELSE IF ~IsMap(row) THEN Raise("AttributeError")
    ELSE LET child == IF keys[1] \in DOMAIN row.m THEN row.m[keys[1]]
                      ELSE MapV(EmptyMap)
             r     == set_nested_value(child, Tail(keys), value)
         IN  IF r.ok THEN Ok(MapV(Put(row.m, keys[1], r.val))) ELSE r

\* Lines 132-137, one pass of the loop per key of order.
RECURSIVE process_filtered_loop(_, _, _)
process_filtered_loop(row, order, new_row) ==
    IF Len(order) = 0 THEN Ok(new_row)
    ELSE LET k == Head(order)
             v == row[k]
             key_split == Split(k)
             nested == IF Len(key_split) > 1 /\ key_split[1] \in {TASK, USER}
                       THEN set_nested_value(MapV(new_row),
                                <<key_split[1], Join(Tail(key_split))>>, v)
                       ELSE Ok(MapV(new_row))
         IN  IF ~nested.ok THEN nested
             ELSE process_filtered_loop(row, Tail(order),
                                        Put(nested.val.m, k, v))

process_filtered_row(row, order) ==
    LET r == process_filtered_loop(row, order, EmptyMap)
    IN  IF r.ok THEN Ok(MapV(r.val)) ELSE r

(***************************************************************************)
(* _get_headers_from_row and _get_all_headers: lines 186-220.              *)
(***************************************************************************)
_get_headers_from_row(obj, obj_name, expanded) ==
    LET obj_dict == IF expanded THEN merge_objects(obj) ELSE obj.dict
    IN  get_keys(obj_dict, obj_name, <<>>)

\* _get_all_headers collecting the headers in a list, neither a set nor
\* sorted.
RECURSIVE ConcatAll(_)
ConcatAll(qs) == IF Len(qs) = 0 THEN <<>> ELSE Head(qs) \o ConcatAll(Tail(qs))

_get_all_headers_list(objs, expanded, table, from_obj) ==
    IF from_obj /\ Len(objs) = 0 THEN Raise("IndexError")
    ELSE LET hs == [i \in 1..Len(objs) |->
                       IF from_obj
                       THEN get_keys(IF expanded THEN merge_objects(objs[i])
                                     ELSE objs[i].dict, objs[1].cls, <<>>)
                       ELSE get_keys(objs[i], table, <<>>)]
         IN  IF \E i \in 1..Len(objs) : ~hs[i].ok
             THEN Raise("UnicodeEncodeError")
             ELSE Ok(ConcatAll([i \in 1..Len(objs) |-> hs[i].val]))

\* objs[0] at line 203 raises IndexError on an empty collection. The first
\* exception a record's headers raise leaves the method.
_get_all_headers(objs, expanded, table, from_obj) ==
    IF from_obj /\ Len(objs) = 0 THEN Raise("IndexError")
    ELSE LET obj_name == objs[1].cls
             hs == [i \in 1..Len(objs) |->
                       IF from_obj
                       THEN _get_headers_from_row(objs[i], obj_name, expanded)
                       ELSE get_keys(objs[i], table, <<>>)]
             bad == {i \in 1..Len(objs) : ~hs[i].ok}
         IN  IF bad # {}
             THEN Raise(hs[CHOOSE i \in bad : \A j \in bad : i <= j].exc)
             ELSE Ok(Sorted(UNION {Range(hs[i].val) : i \in 1..Len(objs)}))

(***************************************************************************)
(* The inputs the calls are tried on.                                      *)
(***************************************************************************)
KA == <<"a">>
KB == <<"b">>
KAB == <<"a", "_", "_", "b">>
KE == <<E_ACUTE>>

\* Keys of records: plain, holding the delimiter, outside ASCII.
Keys == {KA, KB, KAB, KE}

\* Values that are no dict.
Scalars == {IntV(1), NullV, ListV}

\* The dicts with at most n keys over all nesting depths, keys from KS.
RECURSIVE MapsN(_, _)
MapsN(KS, n) ==
    IF n = 0 THEN {EmptyMap}
    ELSE {EmptyMap} \cup UNION {
             {Put(m, k, v) :
                 m \in {x \in MapsN(KS, j) : k \notin DOMAIN x},
                 v \in Scalars \cup {MapV(x) : x \in MapsN(KS, n - 1 - j)}} :
             j \in 0..(n - 1), k \in KS}

Records == {MapV(m) : m \in MapsN(Keys, MaxNodes)}

\* The records get_value is tried on, and the paths looked up in them.
PlainRecords == {MapV(m) : m \in MapsN({KA, KB}, MaxNodes)} \cup Scalars

\* {"a": {"b": {"a": 1}}, "b": None}: three levels, as in get_keys' docstring.
ExampleDeep ==
    MapV((KA :> MapV(KB :> MapV(KA :> IntV(1)))) @@ (KB :> NullV))

\* {"a": {"b": 1}, "a__b": [..]}: two key paths with one header.
ExampleClash ==
    MapV((KA :> MapV(KB :> IntV(1))) @@ (KAB :> ListV))

\* {"a": {u"\xe9": 1, "b": 1}}: a nested key outside ASCII beside a plain one.
ExampleAccent ==
    MapV(KA :> MapV((KE :> IntV(1)) @@ (KB :> IntV(1))))

\* The records collections are made of.
CollectionRecords ==
    {MapV(m) : m \in MapsN(Keys, 1)} \cup {ExampleDeep, ExampleClash, ExampleAccent}

SeqsUpTo(S, n) == UNION {[1..k -> S] : k \in 0..n}

\* The key paths of a dict: every key at every depth, as a tuple of keys.
RECURSIVE Paths(_)
Paths(row) ==
    IF ~IsMap(row) THEN {}
    ELSE UNION {{<<k>>} \cup {<<k>> \o p : p \in Paths(row.m[k])} :
                k \in DOMAIN row.m}

\* The value a dict holds at a key path.
RECURSIVE At(_, _)
At(row, p) == IF Len(p) = 0 THEN row ELSE At(row.m[Head(p)], Tail(p))

\* The header of a key path under a root prefix.
HeaderOf(ty, p) == Join(<<ty>> \o p)

IndexOf(q, x) == CHOOSE i \in 1..Len(q) : q[i] = x

\* The header row of a one-record export of row under prefix ty.
OwnHeaders(row, ty) == _get_all_headers(<<row>>, FALSE, ty, FALSE)

\* Header rows that do not come from the record they are applied to.
ForeignHeaders ==
    {<<>>,
     <<HeaderOf(TASK, <<KA>>), HeaderOf(TASK, <<KA, KB>>)>>,
     <<HeaderOf(TASK, <<KB, KA>>), HeaderOf(TASK, <<KA, KA, KB>>), TASK>>}

\* Domain objects: task runs with their relations, and tasks.
UserDicts ==
    UNION {[S -> {IntV(1), IntV(2)}] :
           S \in SUBSET {NAME, ADMIN, API_KEY, PASSWD_HASH}}

Objects ==
    {[cls |-> TASKRUN, dict |-> MapV(d), task |-> t, user |-> u] :
        d \in {ID :> IntV(1), (ID :> IntV(1)) @@ (INFO :> ExampleAccent)},
        t \in {NullV, MapV(ID :> IntV(2))},
        u \in {NullV} \cup {MapV(x) : x \in UserDicts}}
    \cup
    {[cls |-> TASK, dict |-> MapV(d), task |-> Absent, user |-> Absent] :
        d \in {ID :> IntV(2), (ID :> IntV(2)) @@ (INFO :> ExampleDeep)}}

\* The objects collections and record sources are made of.
CollectionObjects ==
    {o \in Objects :
        o.user \in {NullV, Absent,
                    MapV((NAME :> IntV(1)) @@ (API_KEY :> IntV(2)))}}

\* Flat rows of a filtered query.
FlatKeys ==
    {TASK, KA, Join(<<TASK, KA>>), Join(<<USER, KA>>), Join(<<KB, KA>>),
     Join(<<TASK, KA, KB>>)}

FlatValues == {IntV(1), IntV(2), MapV(KB :> IntV(1))}

FlatRows ==
    UNION {[S -> FlatValues] :
           S \in {T \in SUBSET FlatKeys : Cardinality(T) <= MaxFlatKeys}}

\* The orders in which a dict's keys can be visited.
Orders(m) ==
    {q \in [1..Cardinality(DOMAIN m) -> DOMAIN m] : Range(q) = DOMAIN m}

ArgLists == SeqsUpTo({KA, KB}, MaxArgs)

(***************************************************************************)
(* SpecCalls: each method called on its own, on every input of the sets    *)
(* above. A behaviour is one call: its arguments and what it returned.     *)
(***************************************************************************)
\* What is kept of a call's outcome: the method, and its value or exception.
Returned(name, r) ==
    IF r.ok THEN [op |-> name, ok |-> TRUE, val |-> r.val]
    ELSE [op |-> name, ok |-> FALSE, exc |-> r.exc]

ExportIdle ==
    /\ req = Idle
    /\ gen = "none"
    /\ out = [rows |-> <<>>, pos |-> 0]
    /\ stream = <<>>
    /\ err = "none"

ZipIdle ==
    /\ store = [k \in {TASK, TASK_RUN} |-> [op |-> "no_archive"]]
    /\ zcall = Idle
    /\ zlog = <<>>
    /\ zres = "none"

Init ==
    /\ call = Idle
    /\ ret = Idle
    /\ ExportIdle
    /\ ZipIdle

exportVars == <<req, gen, out, stream, err>>
zipVars == <<store, zcall, zlog, zres>>
callVars == <<call, ret>>

CallGetKeys ==
    /\ call = Idle
    /\ \E row \in Records, ty \in {TASK, TASKRUN} :
        /\ call' = [op |-> "get_keys", row |-> row, ty |-> ty]
        /\ ret' = Returned("get_keys", get_keys(row, ty, <<>>))
    /\ UNCHANGED <<exportVars, zipVars>>

CallGetValue ==
    /\ call = Idle
    /\ \E row \in PlainRecords, args \in ArgLists :
        /\ call' = [op |-> "get_value", row |-> row, args |-> args]
        /\ ret' = Returned("get_value", get_value(row, args))
    /\ UNCHANGED <<exportVars, zipVars>>

\* The header row is the record's own (when its headers can be built) or
\* one built from other records.
CallFormatCsvRow ==
    /\ call = Idle
    /\ \E row \in Records :
        \E headers \in ForeignHeaders
                       \cup {OwnHeaders(r, TASK).val :
                               r \in {x \in {row} : OwnHeaders(x, TASK).ok}} :
            /\ call' = [op |-> "_format_csv_row", row |-> row,
                        headers |-> headers]
            /\ ret' = Returned("_format_csv_row",
                               _format_csv_row(row, headers))
    /\ UNCHANGED <<exportVars, zipVars>>

CallGetAllHeadersRows ==
    /\ call = Idle
    /\ \E objs \in SeqsUpTo(CollectionRecords, MaxRecords),
          table \in {TASK, TASK_RUN} :
        /\ call' = [op |-> "_get_all_headers", objs |-> objs,
                    expanded |-> FALSE, table |-> table, from_obj |-> FALSE]
        /\ ret' = Returned("_get_all_headers",
                           _get_all_headers(objs, FALSE, table, FALSE))
    /\ UNCHANGED <<exportVars, zipVars>>

CallGetAllHeadersObjs ==
    /\ call = Idle
    /\ \E objs \in SeqsUpTo(CollectionObjects, MaxRecords),
          expanded \in BOOLEAN :
        /\ call' = [op |-> "_get_all_headers", objs |-> objs,
                    expanded |-> expanded, table |-> NullV, from_obj |-> TRUE]
        /\ ret' = Returned("_get_all_headers",
                           _get_all_headers(objs, expanded, NullV, TRUE))
    /\ UNCHANGED <<exportVars, zipVars>>

CallProcessFilteredRow ==
    /\ call = Idle
    /\ \E row \in FlatRows :
        \E order \in Orders(row) :
            /\ call' = [op |-> "process_filtered_row", row |-> row,
                        order |-> order]
            /\ ret' = Returned("process_filtered_row",
                               process_filtered_row(row, order))
    /\ UNCHANGED <<exportVars, zipVars>>

CallMergeObjects ==
    /\ call = Idle
    /\ \E t \in Objects :
        /\ call' = [op |-> "merge_objects", t |-> t]
        /\ ret' = Returned("merge_objects", Ok(merge_objects(t)))
    /\ UNCHANGED <<exportVars, zipVars>>

NextCalls ==
    \/ CallGetKeys
    \/ CallGetValue
    \/ CallFormatCsvRow
    \/ CallGetAllHeadersRows
    \/ CallGetAllHeadersObjs
    \/ CallProcessFilteredRow
    \/ CallMergeObjects

SpecCalls == Init /\ [][NextCalls]_vars

(***************************************************************************)
(* The export generators: lines 146-183. A record source is                *)
(* [fails, objs]: whether the query raises, and the records it returns.    *)
(* What a generator's body does up to its yield is an outcome              *)
(* [op, rows, chunk, exc]: op is "yield", "return" or "raise", rows are    *)
(* the rows written to the temporary file, the header row first, chunk is  *)
(* what is yielded.                                                        *)
(***************************************************************************)
\* task_repo.filter_tasks_by, task_repo.filter_task_runs_by and
\* browse_tasks_export: the records of the source, or the query's error.
query_filter(source) ==
    IF source.fails THEN Raise("OperationalError") ELSE Ok(source.objs)

Outcome(kind, rows, exc) ==
    [op |-> kind, rows |-> rows, chunk |-> <<>>, exc |-> exc]

\* out.read(): the rows from the file's position to its end.
Read(f) == SubSeq(f.rows, f.pos + 1, Len(f.rows))

\* yield out.read() on file f.
Yielded(f) == [op |-> "yield", rows |-> f.rows, chunk |-> Read(f), exc |-> "none"]

\* out.seek(0)
Seek0(rows) == [rows |-> rows, pos |-> 0]

\* Lines 146-148: the row _handle_row writes for object t.
_handle_row(t, headers) == _format_csv_row(merge_objects(t), headers)

\* Rows i..Len(objs) of _get_csv's loop, after the rows in written.
RECURSIVE handle_rows(_, _, _, _)
handle_rows(objs, headers, i, written) ==
    IF i > Len(objs) THEN Yielded(Seek0(written))
    ELSE LET row == _handle_row(objs[i], headers)
         IN  IF ~row.ok THEN Outcome("raise", written, row.exc)
             ELSE handle_rows(objs, headers, i + 1, Append(written, row.val))

\* Lines 150-165, up to the yield of out.read() after out.seek(0).
_get_csv(table, source, expanded) ==
    IF table \notin {TASK, TASK_RUN} THEN Outcome("return", <<>>, "none")
    ELSE LET objs == query_filter(source)
         IN  IF ~objs.ok THEN Outcome("raise", <<>>, objs.exc)
             ELSE LET headers == _get_all_headers(objs.val, expanded, NullV, TRUE)
                  IN  IF ~headers.ok THEN Outcome("raise", <<>>, headers.exc)
                      ELSE handle_rows(objs.val, headers.val, 1,
                                       <<headers.val>>)

\* Rows i..Len(rows) of _get_csv_with_filters' loop; orders[i] is the order
\* in which process_filtered_row visits the keys of the i-th row.
RECURSIVE filtered_rows(_, _, _, _, _)
filtered_rows(rows, orders, headers, i, written) ==
    IF i > Len(rows) THEN Yielded(Seek0(written))
    ELSE LET row == process_filtered_row(rows[i].m, orders[i])
             cells == _format_csv_row(row.val, headers)
         IN  IF ~row.ok THEN Outcome("raise", written, row.exc)
             ELSE IF ~cells.ok THEN Outcome("raise", written, cells.exc)
             ELSE filtered_rows(rows, orders, headers, i + 1,
                                Append(written, cells.val))

\* Lines 167-183, up to the yield.
_get_csv_with_filters(table, source, expanded, orders) ==
    LET objs == query_filter(source)
    IN  IF ~objs.ok THEN Outcome("raise", <<>>, objs.exc)
        ELSE LET headers == _get_all_headers(objs.val, expanded, table, FALSE)
             IN  IF ~headers.ok THEN Outcome("raise", <<>>, headers.exc)
                 ELSE filtered_rows(objs.val, orders, headers.val, 1,
                                    <<headers.val>>)

\* Calling a generator function builds the generator and runs none of its
\* body: the call itself does not raise.
GeneratorCall(name) == Ok(name)

\* Lines 222-236: the generator _respond_csv returns. The except branch is
\* taken only when the call inside the try raises.
_respond_csv(filters) ==
    LET g == IF filters THEN GeneratorCall("_get_csv_with_filters")
             ELSE GeneratorCall("_get_csv")
    IN  IF g.ok THEN g.val ELSE "empty_csv"

\* The body of generator g run from its start to its first yield.
GeneratorBody(g, r, orders, f) ==
    IF g = "_get_csv" THEN _get_csv(r.ty, r.source, r.expanded)
    ELSE IF g = "_get_csv_with_filters"
    THEN _get_csv_with_filters(r.ty, r.source, r.expanded, orders)
    ELSE Yielded(f)

\* The orders process_filtered_row can visit the keys in, one per row.
RowOrders(objs) ==
    {q \in [1..Len(objs) -> UNION {Orders(objs[i].m) : i \in 1..Len(objs)}] :
        \A i \in 1..Len(objs) : q[i] \in Orders(objs[i].m)}

\* Flat rows a filtered query returns.
ExportRows ==
    {MapV(m) : m \in
        {ID :> IntV(1),
         (ID :> IntV(1)) @@ (Join(<<TASK, KA>>) :> IntV(2)),
         (ID :> IntV(2)) @@ (Join(<<USER, KA, KB>>) :> IntV(1)),
         (TASK :> IntV(1)) @@ (Join(<<TASK, KA>>) :> IntV(2)),
         INFO :> ExampleAccent,
         KE :> IntV(1)}}

\* The record sources of table ty: domain objects of its class, or flat
\* rows when filters are given.
Sources(ty, filters) ==
    {[fails |-> b, objs |-> q] :
        b \in BOOLEAN,
        q \in IF filters THEN SeqsUpTo(ExportRows, MaxRecords)
              ELSE SeqsUpTo({o \in CollectionObjects :
                                o.cls = IF ty = TASK THEN TASK ELSE TASKRUN},
                            MaxRecords)}

(***************************************************************************)
(* Spec: one export. _respond_csv is called, and the consumer takes the    *)
(* chunks of the generator it returns.                                     *)
(***************************************************************************)
\* _respond_csv(ty, project_id, expanded, **filters): a fresh temporary
\* file and the generator over it.
Respond ==
    /\ gen = "none"
    /\ \E ty \in {TASK, TASK_RUN, USER}, filters \in BOOLEAN,
          expanded \in BOOLEAN :
        \E source \in Sources(ty, filters) :
            /\ filters => ty # USER
            /\ req' = [op |-> "_respond_csv", ty |-> ty, filters |-> filters,
                       expanded |-> expanded, source |-> source,
                       generator |-> _respond_csv(filters)]
    /\ gen' = "created"
    /\ out' = [rows |-> <<>>, pos |-> 0]
    /\ stream' = <<>>
    /\ err' = "none"
    /\ UNCHANGED <<callVars, zipVars>>

\* What the consumer and the temporary file hold after outcome o: a read
\* leaves the file's position at its end.
Deliver(o) ==
    /\ out' = [rows |-> o.rows, pos |-> Len(o.rows)]
    /\ stream' = IF o.op = "yield" THEN Append(stream, o.chunk) ELSE stream
    /\ err' = o.exc
    /\ gen' = IF o.op = "yield" THEN "suspended" ELSE "finished"

\* The consumer's first next(): the body runs to its yield, its return
\* (StopIteration) or the exception it raises, which the consumer gets.
GenStart ==
    /\ gen = "created"
    /\ \E orders \in IF req.filters /\ ~req.source.fails
                     THEN RowOrders(req.source.objs) ELSE {<<>>} :
           Deliver(GeneratorBody(req.generator, req, orders, out))
    /\ UNCHANGED <<req, callVars, zipVars>>

\* The consumer's next() after the yield: the body ends, StopIteration.
GenResume ==
    /\ gen = "suspended"
    /\ gen' = "finished"
    /\ UNCHANGED <<req, out, stream, err, callVars, zipVars>>

Next ==
    \/ Respond
    \/ GenStart
    \/ GenResume

Spec == Init /\ [][Next]_vars

(***************************************************************************)
(* SpecZip: the archives. store holds, per entity type of the one project, *)
(* the archive under download_name(project, ty); zlog is what the last     *)
(* call did to the store and the caller, in order.                         *)
(***************************************************************************)
NoArchive == [op |-> "no_archive"]

Archive(chunks) == [op |-> "archive", chunks |-> chunks]

\* Binding a call's positional arguments to a function's positional
\* parameters: more arguments than parameters is a TypeError.
BindPositional(params, args) ==
    IF Len(args) > Len(params) THEN Raise("TypeError") ELSE Ok(args)

\* Line 264: def make_zip(self, project, obj, expanded=False, **filters)
make_zip_params == <<"self", "project", "obj", "expanded">>

\* Line 271: self.make_zip(self, project, obj, expanded, **filters); the
\* bound method passes self ahead of the arguments written.
_make_zip_args == <<"self", "self", "project", "obj", "expanded">>

\* A caller's make_zip(project, obj, expanded, **filters) on the exporter.
make_zip_args == <<"self", "project", "obj", "expanded">>

\* _make_zipfile(project, obj, 'csv', obj_generator, expanded): the chunks
\* of the generator go into the archive; an exception of the generator
\* leaves the method before anything is stored.
_make_zipfile(o) ==
    IF o.op = "raise" THEN Raise(o.exc)
    ELSE Ok(Archive(IF o.op = "yield" THEN <<o.chunk>> ELSE <<>>))

\* Lines 264-268, called with the positional arguments args.
make_zip(args, r, orders) ==
    LET bound == BindPositional(make_zip_params, args)
        obj_generator == _respond_csv(r.filters)
    IN  IF ~bound.ok THEN bound
        ELSE _make_zipfile(GeneratorBody(obj_generator, r, orders, Seek0(<<>>)))

\* Lines 270-271.
_make_zip(r, orders) == make_zip(_make_zip_args, r, orders)

\* delete_existing_zip(project, ty)
delete_existing_zip(st, ty) == [st EXCEPT ![ty] = NoArchive]

\* Lines 248-262: the response for the uploader in use.
Response(uploader) == IF uploader = "local" THEN "send_file" ELSE "redirect"

\* The record sources archives are made of.
ZipSources(ty, filters) ==
    IF filters
    THEN {[fails |-> FALSE, objs |-> <<>>],
          [fails |-> FALSE,
           objs |-> <<MapV((ID :> IntV(1)) @@ (Join(<<TASK, KA>>) :> IntV(2)))>>]}
    ELSE {[fails |-> TRUE, objs |-> <<>>],
          [fails |-> FALSE, objs |-> <<>>],
          [fails |-> FALSE,
           objs |-> <<CHOOSE o \in CollectionObjects :
                         /\ o.cls = IF ty = TASK THEN TASK ELSE TASKRUN
                         /\ o.user \in {NullV, Absent}
                         /\ DOMAIN o.dict.m = {ID}
                         /\ o.task \in {NullV, Absent}>>]}

ZipOrders(r) ==
    IF r.filters /\ ~r.source.fails THEN RowOrders(r.source.objs) ELSE {<<>>}

ZipRequest(name, ty, filters, expanded, source, uploader) ==
    [op |-> name, ty |-> ty, filters |-> filters, expanded |-> expanded,
     source |-> source, uploader |-> uploader]

\* The store, the log and the result after a call r whose make_zip gave
\* made, on the store st with the log so far.
ZipDone(r, made, st, log) ==
    /\ zcall' = r
    /\ store' = IF made.ok THEN [st EXCEPT ![r.ty] = made.val] ELSE st
    /\ zlog' = IF ~made.ok THEN log
               ELSE IF r.op = "get_zip" THEN log \o <<"write", "response">>
               ELSE log \o <<"write">>
    /\ zres' = IF ~made.ok THEN made.exc
               ELSE IF r.op = "get_zip" THEN Response(r.uploader)
               ELSE "none"

\* make_zip(project, obj, expanded, **filters), called on the exporter.
MakeZip ==
    /\ \E ty \in {TASK, TASK_RUN}, filters \in BOOLEAN, expanded \in BOOLEAN,
          uploader \in {"local", "remote"} :
         \E source \in ZipSources(ty, filters) :
           \E orders \in ZipOrders([filters |-> filters, source |-> source]) :
             ZipDone(ZipRequest("make_zip", ty, filters, expanded, source,
                                uploader),
                     make_zip(make_zip_args,
                              [ty |-> ty, filters |-> filters,
                               expanded |-> expanded, source |-> source],
                              orders),
                     store, <<>>)
    /\ UNCHANGED <<callVars, exportVars>>

\* Lines 241-262: get_zip(project, ty, expanded).
GetZip ==
    /\ \E ty \in {TASK, TASK_RUN}, expanded \in BOOLEAN,
          uploader \in {"local", "remote"} :
         \E source \in ZipSources(ty, FALSE) :
           ZipDone(ZipRequest("get_zip", ty, FALSE, expanded, source,
                              uploader),
                   _make_zip([ty |-> ty, filters |-> FALSE,
                              expanded |-> expanded, source |-> source],
                             <<>>),
                   delete_existing_zip(store, ty), <<"delete">>)
    /\ UNCHANGED <<callVars, exportVars>>

NextZip ==
    \/ MakeZip
    \/ GetZip

SpecZip == Init /\ [][NextZip]_vars

(***************************************************************************)
(* What the claims speak of, stated without the methods they are about.    *)
(***************************************************************************)
\* Following the keys of p from row stays inside dicts and finds each key.
RECURSIVE PathExists(_, _)
PathExists(row, p) ==
    \/ Len(p) = 0
    \/ /\ IsMap(row)
       /\ Head(p) \in DOMAIN row.m
       /\ PathExists(row.m[Head(p)], Tail(p))

\* The value at p, or None when the path does not exist.
Lookup(row, p) == IF PathExists(row, p) THEN At(row, p) ELSE NullV

\* The record whose keys become headers, and the root prefix, for the i-th
\* object of a _get_all_headers call.
HeaderRecord(c, i) ==
    IF ~c.from_obj THEN c.objs[i]
    ELSE IF c.expanded THEN merge_objects(c.objs[i])
    ELSE c.objs[i].dict

HeaderPrefix(c) == IF c.from_obj THEN c.objs[1].cls ELSE c.table

\* A key of a flat row that process_filtered_row nests.
Recognized(k) == Len(Split(k)) > 1 /\ Split(k)[1] \in {TASK, USER}

NestedKey(k) == Join(Tail(Split(k)))

\* No key of the row is itself the first segment of a recognized key.
NoClash(row) ==
    \A k \in DOMAIN row : Recognized(k) => Split(k)[1] \notin DOMAIN row

\* What C8 says of the record new_row returned for row.
Normalized(row, new_row) ==
    /\ \A k \in DOMAIN row :
        /\ k \in DOMAIN new_row
        /\ new_row[k] = row[k]
        /\ Recognized(k) =>
            /\ Split(k)[1] \in DOMAIN new_row
            /\ IsMap(new_row[Split(k)[1]])
            /\ NestedKey(k) \in DOMAIN new_row[Split(k)[1]].m
            /\ new_row[Split(k)[1]].m[NestedKey(k)] = row[k]
    /\ \A k \in DOMAIN new_row \ DOMAIN row :
        /\ IsMap(new_row[k])
        /\ DOMAIN new_row[k].m =
              {NestedKey(x) : x \in {y \in DOMAIN row :
                                        Recognized(y) /\ Split(y)[1] = k}}
        /\ DOMAIN new_row[k].m # {}

(***************************************************************************)
(* The claims settled under SpecCalls.                                     *)
(***************************************************************************)
\* C2: a record projected with _format_csv_row against its own full header
\* set holds, for every key path p of the record, the header of p, and under
\* that header exactly the value the record holds at p.
C2_RoundTrip ==
    (call.op = "_format_csv_row"
       /\ OwnHeaders(call.row, TASK).ok
       /\ call.headers = OwnHeaders(call.row, TASK).val)
    => /\ ret.ok
       /\ \A p \in Paths(call.row) :
           /\ HeaderOf(TASK, p) \in Range(call.headers)
           /\ ret.val[IndexOf(call.headers, HeaderOf(TASK, p))]
                 = At(call.row, p)

\* C4: _format_csv_row(r, H) returns without raising a row of exactly len(H)
\* cells, the i-th being the value r holds at the path of the i-th header,
\* or None; whatever the shape of r.
C4_RowAlignment ==
    call.op = "_format_csv_row"
    => /\ ret.ok
       /\ Len(ret.val) = Len(call.headers)
       /\ \A i \in 1..Len(call.headers) :
           ret.val[i] = Lookup(call.row, Tail(Split(call.headers[i])))

\* C4's case: a header row with headers the record lacks, and with a header
\* that expects a dict where the record holds a scalar.
C4_Witness ==
    /\ call.op = "_format_csv_row"
    /\ call.headers = <<HeaderOf(TASK, <<KA>>), HeaderOf(TASK, <<KA, KB>>)>>
    /\ KA \in DOMAIN call.row.m
    /\ call.row.m[KA] = IntV(1)
    /\ KB \in DOMAIN call.row.m
    /\ ret.ok
    /\ ret.val = <<IntV(1), NullV>>

\* C5: _get_all_headers returns, for a collection with at least one record,
\* a header set that holds the header of every key path of every record.
C5_HeaderCompleteness ==
    (call.op = "_get_all_headers" /\ Len(call.objs) > 0)
    => /\ ret.ok
       /\ \A i \in 1..Len(call.objs) :
           \A p \in Paths(HeaderRecord(call, i)) :
               HeaderOf(HeaderPrefix(call), p) \in Range(ret.val)

\* C6: the header sequence _get_all_headers returns is strictly increasing
\* in code point order: sorted, and no header twice.
C6_SortedNoDuplicates ==
    (call.op = "_get_all_headers" /\ ret.ok)
    => \A i \in 1..(Len(ret.val) - 1) : StrLess(ret.val[i], ret.val[i + 1])

\* C6's case: two records with the same headers, each with two key paths
\* that give one header.
C6_Witness ==
    /\ call.op = "_get_all_headers"
    /\ call.objs = <<ExampleClash, ExampleClash>>
    /\ call.table = TASK
    /\ ret.ok
    /\ ret.val = <<HeaderOf(TASK, <<KA>>), HeaderOf(TASK, <<KA, KB>>)>>

\* C7: get_value never raises; with no segment it returns row; it returns
\* the value at the path when the whole path exists, and None otherwise.
C7_GetValueTotal ==
    call.op = "get_value"
    => /\ ret.ok
       /\ Len(call.args) = 0 => ret.val = call.row
       /\ PathExists(call.row, call.args) => ret.val = At(call.row, call.args)
       /\ ~PathExists(call.row, call.args) => ret.val = NullV

\* C7's case: the first segment is found and holds a list, so the second
\* segment indexes a value that is no dict.
C7_Witness ==
    /\ call.op = "get_value"
    /\ call.args = <<KA, KB>>
    /\ IsMap(call.row)
    /\ KA \in DOMAIN call.row.m
    /\ call.row.m[KA] = ListV
    /\ ret.ok
    /\ ret.val = NullV

\* C8 as claimed: for every flat row and every order of its keys,
\* process_filtered_row returns a record that keeps every key with its
\* value, holds every recognized key's value at [first segment, rest], and
\* has no other nested entry.
C8_Original ==
    call.op = "process_filtered_row"
    => /\ ret.ok
       /\ Normalized(call.row, ret.val.m)

\* C8 as amended: the same, for the rows in which no key is itself the first
\* segment ('task', 'user') of a recognized key of the row.
C8_Normalized ==
    (call.op = "process_filtered_row" /\ NoClash(call.row))
    => /\ ret.ok
       /\ Normalized(call.row, ret.val.m)

\* C8's case: a key of three segments with a recognized prefix beside a key
\* with an unrecognized prefix.
C8_Witness ==
    /\ call.op = "process_filtered_row"
    /\ DOMAIN call.row = {Join(<<TASK, KA, KB>>), Join(<<KB, KA>>)}
    /\ ret.ok
    /\ DOMAIN ret.val.m = DOMAIN call.row \cup {TASK}
    /\ DOMAIN ret.val.m[TASK].m = {KAB}

\* C9: under 'user' merge_objects holds only allowed attributes, each with
\* the user relation's value; a null or missing relation leaves its key out.
C9_AllowList ==
    call.op = "merge_objects"
    => LET r == ret.val.m
           t == call.t
       IN  /\ ret.ok
           /\ IsMap(t.user) =>
               /\ USER \in DOMAIN r
               /\ DOMAIN r[USER].m = DOMAIN t.user.m \cap allowed_attributes
               /\ \A k \in DOMAIN r[USER].m : r[USER].m[k] = t.user.m[k]
           /\ ~IsMap(t.user) => USER \notin DOMAIN r
           /\ ~IsMap(t.task) => TASK \notin DOMAIN r

\* C9's case: a user relation with a name, an API key and a password hash,
\* and a null task relation.
C9_Witness ==
    /\ call.op = "merge_objects"
    /\ IsMap(call.t.user)
    /\ DOMAIN call.t.user.m = {NAME, API_KEY, PASSWD_HASH}
    /\ call.t.task = NullV
    /\ DOMAIN ret.val.m[USER].m = {NAME}
    /\ TASK \notin DOMAIN ret.val.m

(***************************************************************************)
(* Claims about one export (Spec) and about the archives (SpecZip).        *)
(***************************************************************************)
\* C1: whatever step of an export fails, at the call of _respond_csv or
\* while the stream is consumed, the consumer of the stream sees no
\* error: a finished stream has raised nothing to its consumer.
C1_ConsumerSeesNoError ==
    gen = "finished" =>
        err = "none"

\* C3: an export over a source of zero records finishes without error on
\* both paths: the header row has zero columns and is the only row written
\* and delivered.
C3_EmptySourceExports ==
    (/\ gen = "finished"
     /\ req.ty \in {TASK, TASK_RUN}
     /\ ~req.source.fails
     /\ Len(req.source.objs) = 0) =>
        /\ err = "none"
        /\ out.rows = << <<>> >>
        /\ stream = << << <<>> >> >>

\* C10: get_zip deletes the existing archive, then writes a new archive,
\* then responds as the uploader requires; after get_zip the store holds an
\* archive under the key it deleted.
C10_DeleteWriteRespond ==
    zcall.op = "get_zip" =>
        /\ zlog = <<"delete", "write", "response">>
        /\ store[zcall.ty].op = "archive"
        /\ zres = Response(zcall.uploader)

\* C11: the stream of an export of n records is n + 1 chunks, the header
\* row first and then one chunk per data row in record order: no chunk
\* holds more than one row.
C11_ChunkPerRow ==
    (/\ gen = "finished"
     /\ err = "none"
     /\ req.ty \in {TASK, TASK_RUN}) =>
        /\ Len(stream) = Len(req.source.objs) + 1
        /\ \A i \in 1..Len(stream) : stream[i] = <<out.rows[i]>>

\* C12: in a filtered export for table T, every key k of every raw row has
\* the header T + '__' + k in the header row, and the cell written for
\* that row under that header is the raw row's value for k.
C12_HeadersAndCellsAgree ==
    (/\ gen \in {"suspended", "finished"}
     /\ req.filters
     /\ err = "none") =>
        \A i \in 1..Len(req.source.objs) :
            \A k \in DOMAIN req.source.objs[i].m :
                LET h == Join(<<req.ty, k>>)
                    headers == out.rows[1]
                IN  /\ h \in Range(headers)
                    /\ out.rows[i + 1][IndexOf(headers, h)]
                           = req.source.objs[i].m[k]

====
